---- MODULE Spec2Model ----
(***************************************************************************)
(* Inlay-hint synchronisation engine of src/inlay_hints.ts: the            *)
(* HintsUpdater class (registry of Rust source files, one cancellation     *)
(* token source per file, resync passes, rendering, toggle) and the        *)
(* maybeUpdater object of activateInlayHints.                              *)
(*                                                                         *)
(* JavaScript runs one handler at a time; a handler is suspended only at   *)
(* an await.  Each action below is one run-to-completion stretch of code:  *)
(* an event handler up to its first await, or the continuation of an       *)
(* await.                                                                  *)
(***************************************************************************)
EXTENDS Integers, Sequences, FiniteSets, TLC

VARIABLES
  opened,       \* workspace.documents: the Rust documents the editor has open
  active,       \* the document workspace.document resolves to (focused buffer)
  insertMode,   \* workspace.insertMode
  config,       \* ctx.config.inlayHints
  updater,      \* maybeUpdater.updater: 0 (null) or the index of an engine
  engines,      \* every HintsUpdater constructed so far, in construction order
  requests,     \* backend calls of fetchHints that have not resolved yet
  toggling,     \* toggle() calls suspended at "await workspace.document"
  configuring,  \* onConfigChange() calls suspended in their awaits
  overlays,     \* per document, the virtual text in namespace rust-inlay-hint
  errors,       \* TRUE once a promise of the engine was rejected with no handler
  last          \* what the last step did (history, read by the properties only)

vars == <<opened, active, insertMode, config, updater, engines, requests,
          toggling, configuring, overlays, errors, last>>

----------------------------------------------------------------------------
(* Bounds of the model *)

\* Engines constructed in one run.
MaxEngines == 2
\* Backend calls that are unresolved at the same time, over all engines.
MaxInflight == 2
\* Suspended syncAndRenderHints calls, over all engines.
MaxPasses == 1
\* Suspended toggle() calls.
MaxToggling == 1
\* Suspended onConfigChange() calls.
MaxConfiguring == 1
\* syncAndRenderHints() calls made in immediate succession (SpecTwice).
MaxCalls == 2
\* Length of the hint lists renderHints is given (SpecRender).
MaxHints == 2
\* Backend calls that are unresolved at the same time under SpecPasses.
MaxPending == 4
\* Suspended onConfigChange() calls under SpecOverlap.
MaxOverlap == 2

----------------------------------------------------------------------------
(* Documents *)

RustDocs == {"a.rs", "b.rs"}
\* A document of another language; it is opened and edited, never focused here.
TxtDoc == "n.txt"
\* workspace.document answering undefined: the focused buffer is no document
NoDoc == "undefined"
AllDocs == RustDocs \cup {TxtDoc}

isRustDocument(d) == d \in RustDocs

\* inlaysRequest: null
Null == 0

----------------------------------------------------------------------------
(* Hints and rendering *)

TypeHint == "TypeHint"
ChainingHint == "ChainingHint"
ParameterHint == "ParameterHint"

typeHintsSeparator == ": "
chainingHintsSeparator == " >> "

\* The hint lists the backend answers with in this model.
HintLists ==
  { << >>,
    << [kind |-> TypeHint, label |-> "i32", line |-> 3],
       [kind |-> ParameterHint, label |-> "x", line |-> 4],
       [kind |-> ChainingHint, label |-> "Vec", line |-> 5] >> }

\* decorations.type / decorations.chaining: the hints of one kind, in order
Bucket(hints, kind) == SelectSeq(hints, LAMBDA h : h.kind = kind)

\* buffer.clearNamespace(ns)
clearNamespace(ov, d) == IF d \in DOMAIN ov THEN [ov EXCEPT ![d] = {}] ELSE ov

\* buffer.setVirtualText(ns, line, [[text, hlGroup]]) for every item of a bucket
setVirtualText(marks, items, sep, hl) ==
  marks \cup { [line |-> items[i].line, text |-> sep \o items[i].label, hl |-> hl]
               : i \in 1..Len(items) }

\* renderHints with one test for both kinds: typeHints gates the chaining hints too.
renderHintsSharedFlag(hints, cfg) ==
  IF cfg.typeHints
  THEN setVirtualText(setVirtualText({}, Bucket(hints, ChainingHint),
                                     chainingHintsSeparator, "CocRustChainingHint"),
                      Bucket(hints, TypeHint), typeHintsSeparator, "CocRustTypeHint")
  ELSE {}

\* renderHints(doc, hints): the overlays of doc afterwards
renderHints(hints, cfg) ==
  LET chaining == IF cfg.chainingHints
                  THEN setVirtualText({}, Bucket(hints, ChainingHint),
                                      chainingHintsSeparator, "CocRustChainingHint")
                  ELSE {}
  IN IF cfg.typeHints
     THEN setVirtualText(chaining, Bucket(hints, TypeHint),
                         typeHintsSeparator, "CocRustTypeHint")
     ELSE chaining

----------------------------------------------------------------------------
(* Promise chain of fetchHints *)

\* How the backend call (ctx.sendRequestWithRetry) settles.
Outcomes(r) ==
  { [settled |-> "fulfilled", why |-> "result", hints |-> h] : h \in HintLists }
  \cup { [settled |-> "rejected", why |-> "error", hints |-> << >>] }
  \cup IF r.cancelled
       THEN { [settled |-> "rejected", why |-> "cancelled", hints |-> << >>] }
       ELSE {}

\* Catch without its handler: a rejection of the backend call passes through.
CatchRethrows(o) ==
  IF o.settled = "rejected"
  THEN [settled |-> "rejected", null |-> TRUE, hints |-> << >>]
  ELSE [settled |-> "fulfilled", null |-> FALSE, hints |-> o.hints]

\* Catch resolving to an empty hint list instead of null.
CatchEmptyList(o) == [settled |-> "fulfilled", null |-> FALSE, hints |-> o.hints]

\* .catch(() => null)
Catch(o) ==
  IF o.settled = "rejected"
  THEN [settled |-> "fulfilled", null |-> TRUE, hints |-> << >>]
  ELSE [settled |-> "fulfilled", null |-> FALSE, hints |-> o.hints]

\* Finally without its assignment: inlaysRequest keeps the token source.
FinallyNever(inlaysRequest, tokenSource) == inlaysRequest

\* Finally without its identity check: any completion clears inlaysRequest.
FinallyAlways(inlaysRequest, tokenSource) == Null

\* .finally(() => { if (file.inlaysRequest === tokenSource) file.inlaysRequest = null })
Finally(inlaysRequest, tokenSource) ==
  IF inlaysRequest = tokenSource THEN Null ELSE inlaysRequest

----------------------------------------------------------------------------
(* Engines *)

EngineIds == 1..Len(engines)

\* The Uris of an engine's sourceFiles map
Tracked(e) == DOMAIN engines[e].sourceFiles

\* The syncAndRenderHints calls suspended at "await workspace.document"
Suspended(engs) ==
  LET Sum[i \in 0..Len(engs)] == IF i = 0 THEN 0 ELSE Sum[i - 1] + engs[i].passes
  IN Sum[Len(engs)]

\* syncAndRenderHints() up to its await: nothing when disabled, else suspended
startSync(E) == IF E.inlayHintsEnabled THEN [E EXCEPT !.passes = @ + 1] ELSE E

\* tokenSource.cancel() on the token source tok of file u of engine e
Cancel(reqs, e, u, tok) ==
  { IF r.eng = e /\ r.uri = u /\ r.id = tok THEN [r EXCEPT !.cancelled = TRUE] ELSE r
    : r \in reqs }

\* CancelPrevious left out: the previous token source is replaced, not cancelled.
CancelPreviousSkipped(reqs, e, u, tok) == reqs

\* file.inlaysRequest?.cancel() in fetchHints
CancelPrevious(reqs, e, u, tok) == Cancel(reqs, e, u, tok)

\* new CancellationTokenSource(): an identity no unresolved request of the file has
FreshToken(reqs, e, u) ==
  CHOOSE i \in 1..(Cardinality(reqs) + 1) :
    /\ \A r \in reqs : ~(r.eng = e /\ r.uri = u /\ r.id = i)
    /\ \A j \in 1..(i - 1) : \E r \in reqs : r.eng = e /\ r.uri = u /\ r.id = j

\* HintsUpdater.dispose(): cancel every recorded request, dispose the disposables
disposeRequests(reqs, e) ==
  { IF r.eng = e /\ r.uri \in Tracked(e) /\ engines[e].sourceFiles[r.uri] = r.id
    THEN [r EXCEPT !.cancelled = TRUE] ELSE r : r \in reqs }

\* HintsUpdater.dispose(): the disposables (the document listeners) are disposed
disposeListeners(E) == [E EXCEPT !.attached = FALSE]

\* The record of a step: op names the handler or continuation that ran; eng its
\* engine; uri the document of the event or of the resolved request; why and
\* result how the backend call settled and what fetchHints resolved to; current
\* the document the request's pass had found active; stale whether the request's
\* token source was no longer the recorded one; painted whether renderHints ran;
\* synced whether a syncAndRenderHints call passed its enabled check; issued
\* whether backend requests were sent.
NoLast == [op |-> "init", eng |-> 0, uri |-> NoDoc, why |-> "none", result |-> "none",
           current |-> NoDoc, stale |-> FALSE, painted |-> FALSE, synced |-> FALSE,
           issued |-> FALSE]

Did(op, e, u, synced) ==
  [NoLast EXCEPT !.op = op, !.eng = e, !.uri = u, !.synced = synced]

----------------------------------------------------------------------------
Configs == [typeHints : BOOLEAN, chainingHints : BOOLEAN, refreshOnInsertMode : BOOLEAN]

\* The state when activateInlayHints returns: its first onConfigChange() call has
\* disposed nothing (both kinds off) or is suspended in its first await.
Init ==
  /\ opened \in SUBSET RustDocs
  /\ active \in opened \cup {NoDoc}
  /\ insertMode = FALSE
  /\ config \in Configs
  /\ updater = Null
  /\ engines = << >>
  /\ requests = {}
  /\ toggling = 0
  /\ configuring = IF ~config.chainingHints /\ ~config.typeHints THEN 0 ELSE 1
  /\ overlays = [d \in AllDocs |-> {}]
  /\ errors = FALSE
  /\ last = NoLast

----------------------------------------------------------------------------
(* Editor events *)

\* The user focuses another buffer; the engine listens to no such event.
SwitchActive(d) ==
  /\ d \in opened \cup {NoDoc}
  /\ d # active
  /\ active' = d
  /\ last' = Did("switch", 0, NoDoc, FALSE)
  /\ UNCHANGED <<opened, insertMode, config, updater, engines, requests, toggling,
                 configuring, overlays, errors>>

InsertEnter ==
  /\ ~insertMode
  /\ insertMode' = TRUE
  /\ last' = Did("InsertEnter", 0, NoDoc, FALSE)
  /\ UNCHANGED <<opened, active, config, updater, engines, requests, toggling,
                 configuring, overlays, errors>>

\* events.on('InsertLeave', ...): registered by every constructor, never removed
InsertLeave ==
  LET doc == active
      engs == [e \in EngineIds |->
                 IF doc # NoDoc /\ isRustDocument(doc)
                 THEN startSync(engines[e]) ELSE engines[e]]
  IN /\ insertMode
     /\ insertMode' = FALSE
     /\ Suspended(engs) <= MaxPasses
     /\ engines' = engs
     /\ overlays' = IF engines # << >> /\ doc # NoDoc /\ isRustDocument(doc)
                    THEN clearNamespace(overlays, doc) ELSE overlays
     /\ last' = Did("InsertLeave", 0, doc, Suspended(engs) # Suspended(engines))
     /\ UNCHANGED <<opened, active, config, updater, requests, toggling,
                    configuring, errors>>

\* skipsRefresh without the test: a change in insert mode resyncs like any other.
skipsRefreshNever(ins, cfg) == FALSE

\* if (workspace.insertMode && !this.ctx.config.inlayHints.refreshOnInsertMode) return
skipsRefresh(ins, cfg) == ins /\ ~cfg.refreshOnInsertMode

\* workspace.onDidChangeTextDocument(...): in the disposables of its engine.
\* The handlers of the engines that are attached run one after the other.
DidChangeTextDocument(d) ==
  LET heard == { e \in EngineIds : engines[e].attached }
      engs == [e \in EngineIds |->
                 IF e \in heard /\ ~skipsRefresh(insertMode, config)
                 THEN startSync(engines[e]) ELSE engines[e]]
  IN /\ d \in opened \cup {TxtDoc}
     /\ IF isRustDocument(d)
        THEN /\ Suspended(engs) <= MaxPasses
             /\ engines' = engs
             /\ overlays' = IF heard # {} THEN clearNamespace(overlays, d) ELSE overlays
             /\ last' = Did("change", 0, d, Suspended(engs) # Suspended(engines))
             /\ UNCHANGED <<opened, active, insertMode, config, updater, requests,
                            toggling, configuring, errors>>
        ELSE UNCHANGED vars

\* register without the lookup: the entry is always replaced by a new one.
registerFresh(E, d) ==
  [E EXCEPT !.sourceFiles = [u \in DOMAIN @ \cup {d} |-> IF u = d THEN Null ELSE @[u]]]

\* const file = this.sourceFiles.get(e.uri) ?? { document: e, inlaysRequest: null };
\* this.sourceFiles.set(e.uri, file)
register(E, d) ==
  [E EXCEPT !.sourceFiles =
     IF d \in DOMAIN @ THEN @ ELSE [u \in DOMAIN @ \cup {d} |->
                                      IF u = d THEN Null ELSE @[u]]]

\* workspace.onDidOpenTextDocument(...): in the disposables of its engine
DidOpenTextDocument(d) ==
  LET heard == { e \in EngineIds : engines[e].attached }
      engs == [e \in EngineIds |->
                 IF e \in heard THEN startSync(register(engines[e], d)) ELSE engines[e]]
  IN /\ d \in AllDocs
     /\ IF isRustDocument(d)
        THEN /\ Suspended(engs) <= MaxPasses
             /\ opened' = opened \cup {d}
             /\ engines' = engs
             /\ overlays' = IF heard # {} THEN clearNamespace(overlays, d) ELSE overlays
             /\ last' = Did("open", 0, d, Suspended(engs) # Suspended(engines))
             /\ UNCHANGED <<active, insertMode, config, updater, requests, toggling,
                            configuring, errors>>
        ELSE UNCHANGED vars

----------------------------------------------------------------------------
(* Resync passes and fetches *)

\* fetchHints(file) up to the return of its promise, file being the entry u of
\* engine e: cancel the recorded token source, record a new one, send the request.
\* st.reqs are the unresolved requests, st.sf the sourceFiles of e; cur is the
\* document the pass found active, which the .then callback closes over.
fetchHints(st, e, cur, u) ==
  LET tokenSource == FreshToken(st.reqs, e, u)
  IN [reqs |-> CancelPrevious(st.reqs, e, u, st.sf[u])
                 \cup {[eng |-> e, uri |-> u, id |-> tokenSource,
                        cancelled |-> FALSE, current |-> cur]},
      sf |-> [st.sf EXCEPT ![u] = tokenSource]]

\* forEach that fetches for the active document only.
forEachFetchActiveOnly(st, e, cur, files) ==
  IF cur \in files THEN fetchHints(st, e, cur, cur) ELSE st

\* this.sourceFiles.forEach((file, uri) => this.fetchHints(file).then(...))
RECURSIVE forEachFetch(_, _, _, _)
forEachFetch(st, e, cur, files) ==
  IF files = {} THEN st
  ELSE LET u == CHOOSE u \in files : TRUE
       IN forEachFetch(fetchHints(st, e, cur, u), e, cur, files \ {u})

\* syncAndRenderHints() of engine e after "await workspace.document", while at
\* most max backend calls are unresolved afterwards
SyncResumeWithin(e, max) ==
  LET current == active
      st == forEachFetch([reqs |-> requests, sf |-> engines[e].sourceFiles],
                         e, current, Tracked(e))
  IN /\ engines[e].passes > 0
     /\ Cardinality(st.reqs) <= max
     /\ requests' = st.reqs
     /\ engines' = [engines EXCEPT ![e].passes = @ - 1, ![e].sourceFiles = st.sf]
     /\ last' = [Did("sync", e, NoDoc, FALSE) EXCEPT !.issued = Tracked(e) # {}]
     /\ UNCHANGED <<opened, active, insertMode, config, updater, toggling,
                    configuring, overlays, errors>>

\* syncAndRenderHints() of engine e after "await workspace.document"
SyncResume(e) == SyncResumeWithin(e, MaxInflight)

\* Renders without the comparison of the fetched uri with the active document.
RendersAnyDocument(result, current, uri) == ~result.null

\* Renders without "current.uri === uri": any result is painted onto the document
\* the pass found active.
RendersOntoCurrent(result, current, uri) ==
  ~result.null /\ current # NoDoc /\ isRustDocument(current)

\* Renders without "if (!hints) return": a null result is rendered as no hints.
RendersNull(result, current, uri) ==
  current # NoDoc /\ current = uri /\ isRustDocument(current)

\* The .then callback of syncAndRenderHints: does it call renderHints?
Renders(result, current, uri) ==
  /\ ~result.null
  /\ current # NoDoc /\ current = uri /\ isRustDocument(current)

\* The backend call of request r settles with outcome o; the chain
\* .catch(...).finally(...) of fetchHints and the .then(...) of syncAndRenderHints
\* run as consecutive microtasks.
Resolve(r, o) ==
  LET e == r.eng
      uri == r.uri
      result == Catch(o)
      inlaysRequest == engines[e].sourceFiles[uri]
      paints == result.settled = "fulfilled" /\ Renders(result, r.current, uri)
  IN /\ r \in requests
     /\ requests' = requests \ {r}
     /\ engines' = [engines EXCEPT ![e].sourceFiles[uri] = Finally(inlaysRequest, r.id)]
     /\ overlays' = IF paints
                    THEN [overlays EXCEPT ![r.current] = renderHints(result.hints, config)]
                    ELSE overlays
     /\ errors' = (errors \/ result.settled = "rejected")
     /\ last' = [NoLast EXCEPT !.op = "resolve", !.eng = e, !.uri = uri, !.why = o.why,
                   !.result = IF result.settled = "rejected" THEN "rejected"
                              ELSE IF result.null THEN "null" ELSE "hints",
                   !.current = r.current, !.stale = (inlaysRequest # r.id),
                   !.painted = paints]
     /\ UNCHANGED <<opened, active, insertMode, config, updater, toggling, configuring>>

----------------------------------------------------------------------------
(* Toggle and configuration *)

\* HintsUpdater.dispose() of engine e
dispose(engs, e) == [engs EXCEPT ![e] = disposeListeners(@)]

\* maybeUpdater.toggle(): this.updater?.toggle(), up to the await of toggle()
Toggle ==
  /\ updater # Null
  /\ IF engines[updater].inlayHintsEnabled
     THEN /\ toggling < MaxToggling
          /\ engines' = dispose([engines EXCEPT ![updater].inlayHintsEnabled = FALSE],
                                updater)
          /\ requests' = disposeRequests(requests, updater)
          /\ toggling' = toggling + 1
          /\ last' = Did("toggleOff", updater, NoDoc, FALSE)
     ELSE /\ engines' = [engines EXCEPT
                           ![updater] = startSync([@ EXCEPT !.inlayHintsEnabled = TRUE])]
          /\ Suspended(engines') <= MaxPasses
          /\ last' = Did("toggleOn", updater, NoDoc, TRUE)
          /\ UNCHANGED <<requests, toggling>>
  /\ UNCHANGED <<opened, active, insertMode, config, updater, configuring, overlays,
                 errors>>

\* toggle() after "await workspace.document", on its way to Disabled
ToggleResume ==
  LET doc == active
  IN /\ toggling > 0
     /\ toggling' = toggling - 1
     /\ overlays' = IF doc = NoDoc THEN overlays ELSE clearNamespace(overlays, doc)
     /\ last' = Did("toggleClear", 0, doc, FALSE)
     /\ UNCHANGED <<opened, active, insertMode, config, updater, engines, requests,
                    configuring, errors>>

\* workspace.onDidChangeConfiguration -> maybeUpdater.onConfigChange(), up to its
\* first await; with both kinds off it is maybeUpdater.dispose().  At most max
\* calls are suspended afterwards.
ConfigChangeWithin(c, max) ==
  /\ c \in Configs
  /\ config' = c
  /\ IF ~c.chainingHints /\ ~c.typeHints
     THEN /\ engines' = IF updater = Null THEN engines ELSE dispose(engines, updater)
          /\ requests' = IF updater = Null THEN requests
                         ELSE disposeRequests(requests, updater)
          /\ updater' = Null
          /\ last' = Did("configOff", updater, NoDoc, FALSE)
          /\ UNCHANGED configuring
     ELSE /\ configuring < max
          /\ configuring' = configuring + 1
          /\ last' = Did("configOn", updater, NoDoc, FALSE)
          /\ UNCHANGED <<updater, engines, requests>>
  /\ UNCHANGED <<opened, active, insertMode, toggling, overlays, errors>>

ConfigChange(c) == ConfigChangeWithin(c, MaxConfiguring)

\* new HintsUpdater(ctx): the registry of the open Rust documents, their
\* namespaces cleared, the listeners registered, the first syncAndRenderHints()
\* suspended at its await.
NewHintsUpdater ==
  [inlayHintsEnabled |-> TRUE, attached |-> TRUE, passes |-> 1,
   sourceFiles |-> [u \in {d \in opened : isRustDocument(d)} |-> Null]]

\* onConfigChange without "if (this.updater)": it always constructs.
hasUpdaterNever(upd) == FALSE

\* if (this.updater) ... else this.updater = new HintsUpdater(ctx)
hasUpdater(upd) == upd # Null

\* onConfigChange() after ctx.sleep(100) and the two "hi default link" commands
ConfigResume ==
  /\ configuring > 0
  /\ configuring' = configuring - 1
  /\ IF hasUpdater(updater)
     THEN /\ engines' = [engines EXCEPT ![updater] = startSync(@)]
          /\ last' = Did("configSync", updater, NoDoc,
                         engines[updater].inlayHintsEnabled)
          /\ UNCHANGED <<updater, overlays>>
     ELSE /\ Len(engines) < MaxEngines
          /\ engines' = Append(engines, NewHintsUpdater)
          /\ updater' = Len(engines) + 1
          /\ overlays' = [d \in AllDocs |->
                            IF d \in opened /\ isRustDocument(d) THEN {} ELSE overlays[d]]
          /\ last' = Did("construct", Len(engines) + 1, NoDoc, TRUE)
  /\ Suspended(engines') <= MaxPasses
  /\ UNCHANGED <<opened, active, insertMode, config, requests, toggling, errors>>

----------------------------------------------------------------------------
\* A state in which the first onConfigChange() of activateInlayHints has
\* constructed the HintsUpdater: the open Rust documents tracked, the constructor's
\* syncAndRenderHints() suspended at its await.  Both hint kinds are on (the
\* kinds are turned off and on under SpecActivated).
InitUpdater ==
  /\ opened \in SUBSET RustDocs
  /\ active \in opened \cup {NoDoc}
  /\ insertMode = FALSE
  /\ config \in { c \in Configs : c.chainingHints /\ c.typeHints }
  /\ updater = 1
  /\ engines = << NewHintsUpdater >>
  /\ requests = {}
  /\ toggling = 0
  /\ configuring = 0
  /\ overlays = [d \in AllDocs |-> {}]
  /\ errors = FALSE
  /\ last = Did("construct", 1, NoDoc, TRUE)

Editor ==
  \/ \E d \in RustDocs \cup {NoDoc} : SwitchActive(d)
  \/ InsertEnter
  \/ InsertLeave
  \/ \E d \in AllDocs : DidChangeTextDocument(d)
  \/ \E d \in AllDocs : DidOpenTextDocument(d)

Updater ==
  \/ \E e \in EngineIds : SyncResume(e)
  \/ \E r \in requests : \E o \in Outcomes(r) : Resolve(r, o)
  \/ Toggle
  \/ ToggleResume

Configuration ==
  \/ \E c \in Configs : ConfigChange(c)
  \/ ConfigResume

\* One HintsUpdater under editor events, fetches and toggles; the configuration
\* stays as it was when the updater was constructed.
Next == Editor \/ Updater

Spec == InitUpdater /\ [][Next]_vars

\* The state when activateInlayHints returns, one Rust document being open.
InitActivated == Init /\ opened = {"a.rs"}

\* The whole of activateInlayHints: configuration changes dispose and construct
\* updaters.  The editor opens no further Rust document and the toggle command
\* is not used.
NextActivated ==
  \/ \E d \in RustDocs \cup {NoDoc} : SwitchActive(d)
  \/ InsertEnter
  \/ InsertLeave
  \/ \E d \in AllDocs : DidChangeTextDocument(d)
  \/ \E d \in opened \cup {TxtDoc} : DidOpenTextDocument(d)
  \/ \E e \in EngineIds : SyncResume(e)
  \/ \E r \in requests : \E o \in Outcomes(r) : Resolve(r, o)
  \/ Configuration

SpecActivated == InitActivated /\ [][NextActivated]_vars

----------------------------------------------------------------------------
(* Properties *)

Unresolved(e, u) == { r \in requests : r.eng = e /\ r.uri = u }

Resolved == last.op = "resolve"

\* C1: no overlay is painted from the result of a request that a newer request
\* of the same document has superseded (its token source is no longer the one
\* recorded in inlaysRequest when it resolves).
C1_SupersededNeverRendered == ~(Resolved /\ last.stale /\ last.painted)

\* C2: a completing request sets its file's inlaysRequest to null exactly when
\* inlaysRequest still holds its own token source; otherwise inlaysRequest is
\* left as it is.
C2_ClearsOnlyOwnToken ==
  [][last'.op = "resolve" =>
       LET before == engines[last'.eng].sourceFiles[last'.uri]
           after == engines'[last'.eng].sourceFiles[last'.uri]
       IN after = IF last'.stale THEN before ELSE Null]_vars

\* A late completion of a superseded request left the newer token recorded.
C2_Witness ==
  /\ Resolved /\ last.stale
  /\ \E r \in Unresolved(last.eng, last.uri) :
       engines[last.eng].sourceFiles[last.uri] = r.id

\* C3: for every entry of every engine's registry, every unresolved request
\* that has not been cancelled is the one recorded in inlaysRequest, so at most
\* one unresolved request of the entry is not cancelled.
C3_OneLiveRequest ==
  \A e \in EngineIds : \A u \in Tracked(e) :
    /\ \A r \in Unresolved(e, u) :
         ~r.cancelled => engines[e].sourceFiles[u] = r.id
    /\ Cardinality({ r \in Unresolved(e, u) : ~r.cancelled }) <= 1
    /\ \A r, q \in Unresolved(e, u) : r.id = q.id => r = q

\* Two unresolved requests of one entry: the superseded one cancelled, the
\* recorded one not.
C3_Witness ==
  \E e \in EngineIds : \E u \in Tracked(e) : \E r, q \in Unresolved(e, u) :
    r.cancelled /\ ~q.cancelled /\ engines[e].sourceFiles[u] = q.id

\* C4: while an engine is Disabled, every unresolved request of it is cancelled
\* and no syncAndRenderHints call of it sends backend requests.
C4_DisabledIssuesNothing ==
  \A e \in EngineIds :
    ~engines[e].inlayHintsEnabled =>
      /\ \A r \in requests : r.eng = e => r.cancelled
      /\ ~(last.op = "sync" /\ last.eng = e /\ last.issued)

\* C5: once toggle() has completed its way to Disabled, and for as long as the
\* engine stays Disabled, no document has an overlay.
C5_DisabledShowsNothing ==
  (updater # Null /\ ~engines[updater].inlayHintsEnabled /\ toggling = 0) =>
    \A d \in AllDocs : overlays[d] = {}

C8_FetchNeverRaises ==
  /\ ~errors
  /\ (Resolved /\ last.why \in {"error", "cancelled"}) =>
       last.result = "null" /\ ~last.painted

\* A cancelled backend call was rejected and its fetch resolved to null.
C8_Witness == Resolved /\ last.why = "cancelled" /\ last.result = "null"

\* C9: when toggle() has moved the engine back to Enabled its document
\* listeners are attached.
C9_ToggleOnReattaches ==
  last.op = "toggleOn" => engines[last.eng].attached

\* C10: a configuration change that turns both hint kinds off while an updater
\* exists cancels the updater's unresolved requests, detaches its document
\* listeners and clears the overlays of the active document.
C10_ConfigOffActsAsDisable ==
  (last.op = "configOff" /\ last.eng # Null) =>
    /\ \A r \in requests : r.eng = last.eng => r.cancelled
    /\ ~engines[last.eng].attached
    /\ active # NoDoc => overlays[active] = {}

----------------------------------------------------------------------------
(* syncAndRenderHints called twice in a row *)

\* A backend that answers the same for an unchanged document: hints for a.rs,
\* none for b.rs.
Answer(u) == IF u = "a.rs" THEN CHOOSE h \in HintLists : h # << >> ELSE << >>

\* How a call to that backend settles: with the answer, or, once its token is
\* cancelled, also with the rejection of the cancellation.
SameOutcomes(r) ==
  { o \in Outcomes(r) : o.why # "error" /\ (o.why = "result" => o.hints = Answer(r.uri)) }

\* Overlays a document may carry from an earlier pass.
OldMarks == { [line |-> 1, text |-> ": u8", hl |-> "CocRustTypeHint"] }

\* syncAndRenderHints() is called once, or up to MaxCalls times in a row.
Calls == 1..MaxCalls

\* One updater; syncAndRenderHints() has been called once or twice in immediate
\* succession and every call is suspended at its await.
InitTwice ==
  /\ opened \in SUBSET RustDocs
  /\ active \in opened \cup {NoDoc}
  /\ insertMode = FALSE
  /\ config \in { c \in Configs : c.chainingHints \/ c.typeHints }
  /\ updater = 1
  /\ \E n \in Calls : engines = << [NewHintsUpdater EXCEPT !.passes = n] >>
  /\ requests = {}
  /\ toggling = 0
  /\ configuring = 0
  /\ overlays \in [AllDocs -> {{}, OldMarks}]
  /\ \A d \in AllDocs \ opened : overlays[d] = {}
  /\ errors = FALSE
  /\ last = NoLast

\* No editor event: the calls resume and their requests settle, in any order.
NextTwice ==
  \/ \E e \in EngineIds : SyncResume(e)
  \/ \E r \in requests : \E o \in SameOutcomes(r) : Resolve(r, o)

SpecTwice == InitTwice /\ [][NextTwice]_vars

\* Every call has resumed and every request has settled.
Quiescent == requests = {} /\ \A e \in EngineIds : engines[e].passes = 0

\* C11: with a backend that answers the same for an unchanged document, one call
\* and two calls of syncAndRenderHints in a row end, whatever the order in which
\* the requests settle, with the same overlays on every document: the tracked
\* active document carries the rendering of its answer and no other document is
\* touched.
C11_TwiceAsOnce ==
  /\ []((Quiescent /\ active \in Tracked(1))
          => overlays[active] = renderHints(Answer(active), config))
  /\ [][\A d \in AllDocs : d # active => overlays'[d] = overlays[d]]_vars

\* Two calls: the superseded request of the first call settles last, with hints.
C11_Witness ==
  /\ Quiescent
  /\ last.op = "resolve" /\ last.stale /\ last.painted
  /\ overlays[active] # {}

----------------------------------------------------------------------------
(* renderHints over every hint list *)

\* The hints of the lists: every kind of lsp_ext.InlayHint, one that the switch
\* of renderHints does not know, on two lines.
HintKinds == {TypeHint, ChainingHint, ParameterHint, "OtherHint"}
Hints == [kind : HintKinds, label : {"i32"}, line : {3, 5}]

RECURSIVE ListsUpTo(_)
ListsUpTo(n) ==
  IF n = 0 THEN { << >> }
  ELSE LET shorter == ListsUpTo(n - 1)
       IN shorter \cup { Append(l, h) : l \in { s \in shorter : Len(s) = n - 1 },
                                        h \in Hints }

\* The backend answers with any list of at most MaxHints hints, or fails.
RenderOutcomes ==
  { [settled |-> "fulfilled", why |-> "result", hints |-> h] : h \in ListsUpTo(MaxHints) }
  \cup { [settled |-> "rejected", why |-> "error", hints |-> << >>] }

\* The updater is constructed over one open and active Rust document, under any
\* setting of the flags.
InitRender ==
  /\ opened = {"a.rs"}
  /\ active = "a.rs"
  /\ insertMode = FALSE
  /\ config \in Configs
  /\ updater = 1
  /\ engines = << NewHintsUpdater >>
  /\ requests = {}
  /\ toggling = 0
  /\ configuring = 0
  /\ overlays = [d \in AllDocs |-> {}]
  /\ errors = FALSE
  /\ last = Did("construct", 1, NoDoc, TRUE)

\* The document is edited, resynced and rendered again and again.
NextRender ==
  \/ DidChangeTextDocument("a.rs")
  \/ \E e \in EngineIds : SyncResume(e)
  \/ \E r \in requests : \E o \in RenderOutcomes : Resolve(r, o)

SpecRender == InitRender /\ [][NextRender]_vars

\* Is a hint of this kind shown under these flags?
Shown(h, cfg) ==
  \/ h.kind = TypeHint /\ cfg.typeHints
  \/ h.kind = ChainingHint /\ cfg.chainingHints

\* The overlay of a type or chaining hint.
OverlayOf(h) ==
  [line |-> h.line,
   text |-> (IF h.kind = TypeHint THEN typeHintsSeparator
             ELSE chainingHintsSeparator) \o h.label,
   hl |-> IF h.kind = TypeHint THEN "CocRustTypeHint" ELSE "CocRustChainingHint"]

\* C13: after renderHints the overlays of the document are exactly one overlay
\* (line of the range end, separator of the kind followed by the label,
\* highlight group of the kind) for each type hint when typeHints is on and for
\* each chaining hint when chainingHints is on; hints of another kind have none.
C13_RendersByKindAndFlag ==
  [][\A r \in requests : \A o \in RenderOutcomes :
       (Resolve(r, o) /\ last'.painted)
         => overlays'[r.uri] =
              { OverlayOf(o.hints[i]) :
                  i \in { j \in 1..Len(o.hints) : Shown(o.hints[j], config) } }]_vars

\* Two type hints are painted while the chaining hints are turned off.
C13_Witness ==
  /\ last.op = "resolve" /\ last.painted
  /\ config.typeHints /\ ~config.chainingHints
  /\ Cardinality(overlays["a.rs"]) = 2

----------------------------------------------------------------------------
(* Progress *)

\* The continuation of an "await workspace.document": the editor answers.
Resume == (\E e \in EngineIds : SyncResume(e)) \/ ToggleResume

\* A backend call settles, with a result, a failure or its cancellation.
Settle == \E r \in requests : \E o \in Outcomes(r) : Resolve(r, o)

\* Spec with progress: an await of the editor is eventually resumed, and every
\* backend call eventually settles.
SpecLive == Spec /\ WF_vars(Resume) /\ WF_vars(Settle)

\* Every inlaysRequest of every engine is null.
AllNull == \A e \in EngineIds : \A u \in Tracked(e) : engines[e].sourceFiles[u] = Null

\* C15: if the editor events and commands stop, every inlaysRequest is
\* eventually null and stays null; and an inlaysRequest that is not null holds
\* the token source of a request that has not settled, so that a call that never
\* settles keeps it from being null only until a resync supersedes the call.
C15_EventuallyNull ==
  /\ (<>[][Resume \/ Settle]_vars) => <>[]AllNull
  /\ [](\A e \in EngineIds : \A u \in Tracked(e) :
          engines[e].sourceFiles[u] # Null
            => \E r \in Unresolved(e, u) : r.id = engines[e].sourceFiles[u])

\* A superseded request settles last and leaves every inlaysRequest null.
C15_Witness ==
  /\ last.op = "resolve" /\ last.stale
  /\ requests = {} /\ AllNull
  /\ \A e \in EngineIds : engines[e].passes = 0
  /\ \E e \in EngineIds : Tracked(e) # {}

----------------------------------------------------------------------------
(* Resync passes over two documents *)

\* The updater is constructed over two open Rust documents.
InitPasses == InitUpdater /\ opened = RustDocs

\* Either document is edited; passes resume while requests of both documents are
\* pending.
NextPasses ==
  \/ \E d \in RustDocs : DidChangeTextDocument(d)
  \/ \E e \in EngineIds : SyncResumeWithin(e, MaxPending)
  \/ \E r \in requests : \E o \in Outcomes(r) : Resolve(r, o)

SpecPasses == InitPasses /\ [][NextPasses]_vars

\* C16: a resync pass cancels the recorded request of every entry of the
\* registry and sends exactly one new request for it, which becomes the
\* recorded one, whichever document's event started the pass; and no step
\* removes an entry from the registry.
C16_PassCoversRegistry ==
  [][/\ \A e \in EngineIds : Tracked(e) \subseteq DOMAIN engines'[e].sourceFiles
     /\ last'.op = "sync" =>
          \A u \in Tracked(last'.eng) :
            LET e == last'.eng
                was == Unresolved(e, u)
                now == { r \in requests' : r.eng = e /\ r.uri = u }
            IN /\ Cardinality(now) = Cardinality(was) + 1
               /\ \A r \in was : [r EXCEPT !.cancelled = TRUE] \in now
               /\ \E r \in now :
                    /\ ~r.cancelled /\ r.id = engines'[e].sourceFiles[u]
                    /\ \A q \in now \ {r} : q.cancelled]_vars

\* A pass supersedes the pending requests of both documents.
C16_Witness ==
  /\ last.op = "sync"
  /\ \A u \in RustDocs :
       /\ \E r \in Unresolved(last.eng, u) : r.cancelled
       /\ \E r \in Unresolved(last.eng, u) : ~r.cancelled

\* C17: a document-opened event keeps every entry of the registry as it is, its
\* inlaysRequest included, also the entry of the opened document when it is
\* already tracked; the updaters that hear the event track the document
\* afterwards, under the one key of its uri.
C17_RegisterIdempotent ==
  [][last'.op = "open" =>
       \A e \in EngineIds :
         /\ \A u \in Tracked(e) :
              /\ u \in DOMAIN engines'[e].sourceFiles
              /\ engines'[e].sourceFiles[u] = engines[e].sourceFiles[u]
         /\ DOMAIN engines'[e].sourceFiles \subseteq Tracked(e) \cup {last'.uri}
         /\ engines[e].attached => last'.uri \in DOMAIN engines'[e].sourceFiles]_vars

\* A tracked document is opened again while its request is in flight.
C17_Witness ==
  /\ last.op = "open"
  /\ \E e \in EngineIds :
       /\ engines[e].attached
       /\ engines[e].sourceFiles[last.uri] # Null
       /\ \E r \in Unresolved(e, last.uri) :
            r.id = engines[e].sourceFiles[last.uri] /\ ~r.cancelled

\* C18: immediately after a document-changed, document-opened or
\* insert-mode-left event on a Rust document, while the updater is enabled, that
\* document has no overlay.
C18_EventLeavesNoOverlay ==
  (/\ last.op \in {"change", "open", "InsertLeave"} /\ isRustDocument(last.uri)
   /\ updater # Null /\ engines[updater].inlayHintsEnabled)
    => overlays[last.uri] = {}

----------------------------------------------------------------------------
(* Overlapping configuration changes *)

\* Configuration changes follow each other faster than onConfigChange() gets
\* through its awaits; the updaters resync and their requests settle.
NextOverlap ==
  \/ \E c \in Configs : ConfigChangeWithin(c, MaxOverlap)
  \/ ConfigResume
  \/ \E e \in EngineIds : SyncResume(e)
  \/ \E r \in requests : \E o \in Outcomes(r) : Resolve(r, o)

SpecOverlap == InitActivated /\ [][NextOverlap]_vars

\* C19: every HintsUpdater ever constructed is the one maybeUpdater.updater
\* refers to or has been disposed; so at most one is live, also when
\* onConfigChange() calls overlap in their awaits.
C19_OneLiveUpdater ==
  \A e \in EngineIds : e = updater \/ ~engines[e].attached

\* Of two onConfigChange() calls suspended together, one has just constructed the
\* updater and the other has yet to resume.
C19_Witness ==
  /\ last.op = "construct" /\ configuring = 1
  /\ updater = Len(engines) /\ engines[updater].attached

\* C20: an updater disposed through maybeUpdater.dispose sends no backend
\* request for an insert-mode-left event that occurs after its disposal: no pass
\* that the event has just started on such an updater goes on to fetch.
C20_DisposedStaysSilent ==
  [][~(/\ last.op = "InsertLeave" /\ last.synced
       /\ last'.op = "sync" /\ last'.issued
       /\ last'.eng # updater /\ ~engines[last'.eng].attached
       /\ engines[last'.eng].passes = 1)]_vars

====
